---- MODULE Spec2Model ----
(***************************************************************************)
(* Authorization core of warehouse-management-api: the token service       *)
(* (src/src/services/token.service.ts) and the session lifecycle of the    *)
(* auth service (src/src/services/auth.service.ts).                        *)
(*                                                                         *)
(* A signed JWT is modelled by its payload together with the key that      *)
(* signed it; jwt.verify rejects a token that is not a JWT, then one whose *)
(* key is not the verifier's secret, then one whose exp has passed.        *)
(* Time is a whole number of ticks.  A handler is one action, except       *)
(* reissueToken, which is one action per database round trip so that two   *)
(* calls interleave at their awaits.                                       *)
(***************************************************************************)
EXTENDS Integers, Sequences, FiniteSets, TLC

\* ---------------------------------------------------------------- bounds
Users == {"u1", "u2"}
Passwords == {"p1", "p2"}
MaxTime == 2
MaxTokens == 3
Tasks == {1, 2}
Codes == {"c1", "c2"}
MaxOtps == 2
MaxTimers == 3
MaxSuccesses == 2
ForgotPasswordTTL == 1
MsPerSecond == 2
MaxClockMs == 5
\* token and code lifetimes, in ticks (env.*_EXPIRESIN, createOTPExpiration)
AccessTTL == 1
RefreshTTL == 1
OtpTTL == 1
\* lifetime of a permission-cache entry, in ticks (CACHE_TTL, 5 minutes)
CACHE_TTL == 2
RoleIds == {"r1", "r2"}
PermIds == {"x1", "x2"}

VARIABLES
  users,          \* users collection: user id -> row, or NoUser
  tokens,         \* tokens collection: set of Token rows
  tokenBlacklist, \* in-memory set of invalidated token strings
  now,            \* the clock
  nextTokenId,    \* next fresh ObjectId for a refresh token
  issued,         \* every refresh token handed to a client so far
  revoked,        \* refresh tokens whose revocation call has returned
  rotations,      \* [old, new]: refresh token new was issued in exchange for old
  tasks,          \* in-flight reissueToken calls
  otps,           \* otps collection: set of Otp rows
  nextOtpId,      \* next fresh _id (and creation order) of an Otp row
  audit,          \* whether this run records the outcome of each step
  ret,            \* outcome of the step just taken, when audit is on
  roleDocs,       \* roles collection: role id -> row, or NoRole
  permissionDocs, \* permissions collection: set of Permission rows
  permissionCache,\* in-memory map: user id -> cached permissions, or NoEntry
  permRet,        \* outcome of the permission-service call just made, when audit is on
  tokenCleanupInterval, \* the scheduler's handle: a timer id, or NoTimer for null
  timers,         \* ids of the interval timers the runtime has scheduled
  nextTimerId,    \* id the next setInterval call returns
  storeUp,        \* whether the tokens collection answers
  reaperLog,      \* what the scheduler did last, and whether a sweep ever failed
  mailUp,         \* whether the mail transport accepts a message
  newestOtp,      \* history: per user and type, the Otp row inserted last (or NoOtp)
  verifyTasks,    \* in-flight verifyOTP / verifyPasswordResetOTP calls
  otpSuccesses,   \* history: Otp row id -> number of verification calls it let succeed
  permTasks,      \* in-flight getUserPermissions calls
  invalidated,    \* history: user id -> clearUserCache ran and no role changed since
  roleTasks,      \* in-flight addPermissionsToRole / deletePermission calls
  clockMs,        \* Date.now(), in milliseconds
  building        \* the token payload being built, between its reads of the clock

\* the state of the permission service
permVars == <<roleDocs, permissionDocs, permissionCache, permRet>>

\* what the handlers of the auth service never touch
\* the state of the cleanup scheduler
reaperVars == <<tokenCleanupInterval, timers, nextTimerId, storeUp, reaperLog>>

\* what neither the auth handlers nor the issuing of a code touch
\* permission lookups in flight, and the invalidations made
lookupVars == <<permTasks, invalidated, roleTasks>>

\* the millisecond clock and the payload under construction
stampVars == <<clockMs, building>>

quietVars == <<permVars, lookupVars, reaperVars, mailUp, stampVars>>

\* verification calls in flight, and what they achieved
raceVars == <<verifyTasks, otpSuccesses>>

sideVars == <<quietVars, newestOtp, raceVars>>

vars == <<users, tokens, tokenBlacklist, now, nextTokenId, issued, revoked, rotations, tasks,
          otps, nextOtpId, audit, ret, sideVars>>

\* ------------------------------------------------------------ enums, keys
AccessToken == "AccessToken"
RefreshToken == "RefreshToken"
ForgotPasswordToken == "ForgotPasswordToken"
OTPVerify == "OTPVerifyToken"

TOKEN_SECRET_MAP(type) ==
  CASE type = AccessToken -> "ACCESS_TOKEN_PRIVATE_KEY"
    [] type = RefreshToken -> "REFRESH_TOKEN_PRIVATE_KEY"
    [] type = ForgotPasswordToken -> "FORGOT_PASSWORD_TOKEN_PRIVATE_KEY"
    [] type = OTPVerify -> "OTP_SECRET"
    [] OTHER -> ""

\* ------------------------------------------------------------------ users
NoUser == [exists |-> FALSE, password |-> <<>>, verify |-> "", is_approved |-> FALSE,
           is_removed |-> FALSE, roles |-> {}]

hashPassword(password) == <<"hash", password>>

comparePassword(plainPassword, hashedPassword) == hashPassword(plainPassword) = hashedPassword

User(password, verify, is_approved, is_removed, roles) ==
  [exists |-> TRUE, password |-> hashPassword(password), verify |-> verify,
   is_approved |-> is_approved, is_removed |-> is_removed, roles |-> roles]

\* ----------------------------------------------------------------- tokens
NoToken == [kind |-> "none", sub |-> "", type |-> "", tokenId |-> 0, exp |-> 0, key |-> "", roles |-> {}]

Garbage == [NoToken EXCEPT !.kind = "garbage"]

AccessJwt(userId, roles, exp) ==
  [kind |-> "jwt", sub |-> userId, type |-> AccessToken, tokenId |-> 0, exp |-> exp,
   key |-> "ACCESS_TOKEN_PRIVATE_KEY", roles |-> roles]

RefreshJwt(userId, tokenId, exp) ==
  [kind |-> "jwt", sub |-> userId, type |-> RefreshToken, tokenId |-> tokenId, exp |-> exp,
   key |-> "REFRESH_TOKEN_PRIVATE_KEY", roles |-> {}]

Forged(token) == [token EXCEPT !.key = "attacker"]

TokenRow(jwt) ==
  [token_id |-> jwt.tokenId, user_id |-> jwt.sub, type |-> RefreshToken,
   expires_at |-> jwt.exp, is_removed |-> FALSE]


\* ----------------------------------------------------------- validateToken
invalidToken(error) == [valid |-> FALSE, expired |-> FALSE, error |-> error, sub |-> ""]

JwtVerify(token, secret, t) ==
  IF token.kind # "jwt" THEN [name |-> "JsonWebTokenError", message |-> "jwt malformed"]
  ELSE IF token.key # secret THEN [name |-> "JsonWebTokenError", message |-> "invalid signature"]
  ELSE IF t >= token.exp THEN [name |-> "TokenExpiredError", message |-> "jwt expired"]
  ELSE [name |-> "", message |-> ""]

\* the lookup without the is_removed filter
FindAnyRefresh(store, token) ==
  {r \in store : r.token_id = token.tokenId /\ r.user_id = token.sub /\ r.type = RefreshToken}

FindActiveRefresh(store, token) ==
  {r \in store : /\ r.token_id = token.tokenId
                 /\ r.user_id = token.sub
                 /\ r.type = RefreshToken
                 /\ r.is_removed # TRUE}

ValidateTokenWith(blacklist, store, t, token, expectedType) ==
  IF token \in blacklist THEN invalidToken("Token has been invalidated")
  ELSE IF TOKEN_SECRET_MAP(expectedType) = "" THEN invalidToken("Unsupported token type")
  ELSE LET v == JwtVerify(token, TOKEN_SECRET_MAP(expectedType), t) IN
    IF v.name = "TokenExpiredError" THEN invalidToken("Token has expired")
    ELSE IF v.name # "" THEN invalidToken(v.message)
    ELSE IF token.type # expectedType THEN invalidToken("Invalid token type")
    ELSE IF expectedType = RefreshToken /\ (token.tokenId = 0 \/ token.sub = "")
      THEN invalidToken("Malformed refresh token payload")
    ELSE IF expectedType = RefreshToken /\ FindActiveRefresh(store, token) = {}
      THEN invalidToken("Token has been revoked or does not exist")
    ELSE [valid |-> TRUE, expired |-> FALSE, error |-> "", sub |-> token.sub]

validateToken(token, expectedType) ==
  ValidateTokenWith(tokenBlacklist, tokens, now, token, expectedType)

\* ---------------------------------------------------- store write helpers
\* an invalidateToken that only fills the in-memory blacklist
KeepRow(store, token) == store

\* an invalidateToken whose updateOne filters on user_id and type only
RevokeUserRows(store, token) ==
  {IF r.user_id = token.sub /\ r.type = RefreshToken
   THEN [r EXCEPT !.is_removed = TRUE] ELSE r : r \in store}

\* updateOne {token_id, user_id, type} $set is_removed: true (jwt.decode of a
\* non-JWT yields null, and nothing is written)
RevokeRow(store, token) ==
  IF token.kind = "jwt" /\ token.tokenId # 0 /\ token.sub # "" /\ token.type = RefreshToken
  THEN {IF r.token_id = token.tokenId /\ r.user_id = token.sub /\ r.type = RefreshToken
        THEN [r EXCEPT !.is_removed = TRUE] ELSE r : r \in store}
  ELSE store

\* a handler that calls invalidateToken before it looks at what it was given
blacklistBeforeThrow(blacklist, token) == blacklist \cup {token}

\* the in-memory blacklist when a handler throws ahead of its invalidateToken call
blacklistOnThrow(blacklist, token) == blacklist

\* a logout-everywhere that leaves the store as it is
keepAllUserRefreshTokens(store, userId) == store

\* an updateMany whose filter misses user_id
revokeEveryRefreshToken(store, userId) ==
  {IF r.type = RefreshToken THEN [r EXCEPT !.is_removed = TRUE] ELSE r : r \in store}

\* updateMany {user_id, type} $set is_removed: true
invalidateAllUserRefreshTokens(store, userId) ==
  {IF r.user_id = userId /\ r.type = RefreshToken
   THEN [r EXCEPT !.is_removed = TRUE] ELSE r : r \in store}

\* deleteMany {expires_at: {$lt: now}}
cleanupExpiredTokens(store, t) == {r \in store : ~(r.expires_at < t)}

RowsOf(store, userId) == {r \in store : r.user_id = userId /\ r.type = RefreshToken}

JwtOfRow(r) == RefreshJwt(r.user_id, r.token_id, r.expires_at)

\* ------------------------------------------------------------ step record
NoRet == [op |-> "", ok |-> TRUE, status |-> "", message |-> "", user |-> "", token |-> NoToken]

Ret(op, ok, status, message, user, token) ==
  IF audit
  THEN [op |-> op, ok |-> ok, status |-> status, message |-> message, user |-> user, token |-> token]
  ELSE NoRet

Idle == [pc |-> "idle", token |-> NoToken, sub |-> ""]

\* ----------------------------------------------------- permission service
NoRole == [exists |-> FALSE, name |-> "", is_active |-> FALSE, permissions |-> {}]

Role(name, is_active, permissions) ==
  [exists |-> TRUE, name |-> name, is_active |-> is_active, permissions |-> permissions]

Permission(id) == [id |-> id, name |-> <<"permission", id>>]

NoEntry == [cached |-> FALSE, permissions |-> {}, timestamp |-> 0]

NoPermRet == [op |-> "", user |-> "", permissions |-> {}, read |-> FALSE, clean |-> FALSE]

PermRet(op, user, perms, read) ==
  IF audit THEN [op |-> op, user |-> user, permissions |-> perms, read |-> read, clean |-> FALSE]
  ELSE NoPermRet

\* the roles the seeded users of the auth service refer to
DefaultRoles ==
  [r \in RoleIds |-> IF r = "r1" THEN Role("Student", TRUE, {}) ELSE Role("Instructor", TRUE, {})]

PermissionIdle ==
  /\ roleDocs = DefaultRoles
  /\ permissionDocs = {}
  /\ permissionCache = [u \in Users |-> NoEntry]
  /\ permRet = NoPermRet

\* roles.find {_id: {$in: user.roles}, is_active: true}
ActiveRolesOf(user) ==
  {r \in user.roles \cap RoleIds : roleDocs[r].exists /\ roleDocs[r].is_active = TRUE}

\* the same lookup without the is_active filter
getUserPermissionsFromAnyRole(userId) ==
  LET user == users[userId]
      userRoles == {r \in user.roles \cap RoleIds : roleDocs[r].exists} IN
  IF ~user.exists \/ user.roles = {} THEN {}
  ELSE IF userRoles = {} THEN {}
  ELSE IF \E r \in userRoles : roleDocs[r].name = "Admin" THEN permissionDocs
  ELSE {p \in permissionDocs : p.id \in UNION {roleDocs[r].permissions : r \in userRoles}}

getUserPermissionsFromDB(userId) ==
  LET user == users[userId]
      userRoles == ActiveRolesOf(user)
      permissionIds == UNION {roleDocs[r].permissions : r \in userRoles} IN
  IF ~user.exists \/ user.roles = {} THEN {}
  ELSE IF userRoles = {} THEN {}
  ELSE IF \E r \in userRoles : roleDocs[r].name = "Admin" THEN permissionDocs
  ELSE IF permissionIds = {} THEN {}
  ELSE {p \in permissionDocs : p.id \in permissionIds}

\* a cache that never looks at the age of an entry
CacheHitForever(userId) == permissionCache[userId].cached

\* cachedData && now - cachedData.timestamp < CACHE_TTL
CacheHit(userId) ==
  permissionCache[userId].cached /\ now - permissionCache[userId].timestamp < CACHE_TTL

\* what getUserPermissions returns, and the cache it leaves behind
getUserPermissions(userId) ==
  IF CacheHit(userId) THEN permissionCache[userId].permissions
  ELSE getUserPermissionsFromDB(userId)

CacheAfterGet(userId) ==
  IF CacheHit(userId) THEN permissionCache
  ELSE [permissionCache EXCEPT ![userId] =
          [cached |-> TRUE, permissions |-> getUserPermissionsFromDB(userId), timestamp |-> now]]

permissionNames(perms) == {p.name : p \in perms}

\* hasAllPermissions without the early return for an empty list
hasAllPermissionsStrict(userId, requiredPermissions) ==
  requiredPermissions # {} /\ requiredPermissions \subseteq permissionNames(getUserPermissions(userId))

hasAllPermissions(userId, requiredPermissions) ==
  IF requiredPermissions = {} THEN TRUE
  ELSE \A name \in requiredPermissions : name \in permissionNames(getUserPermissions(userId))

hasAnyPermission(userId, requiredPermissions) ==
  IF requiredPermissions = {} THEN TRUE
  ELSE \E name \in requiredPermissions : name \in permissionNames(getUserPermissions(userId))

permFrame == UNCHANGED <<stampVars, permTasks, roleTasks, reaperVars, mailUp, newestOtp, raceVars, users, tokens, tokenBlacklist, now, nextTokenId, issued, revoked,
                         rotations, tasks, otps, nextOtpId, audit, ret>>

GetUserPermissions(u) ==
  /\ permissionCache' = CacheAfterGet(u)
  /\ permRet' = PermRet("getUserPermissions", u, getUserPermissions(u), ~CacheHit(u))
  /\ UNCHANGED <<roleDocs, permissionDocs, invalidated>>
  /\ permFrame

HasAllPermissions(u, requiredPermissions) ==
  /\ permissionCache' = IF requiredPermissions = {} THEN permissionCache ELSE CacheAfterGet(u)
  /\ permRet' = PermRet(IF hasAllPermissions(u, requiredPermissions)
                        THEN "hasAllPermissions:true" ELSE "hasAllPermissions:false",
                        u, {}, requiredPermissions # {} /\ ~CacheHit(u))
  /\ UNCHANGED <<roleDocs, permissionDocs, invalidated>>
  /\ permFrame

HasAnyPermission(u, requiredPermissions) ==
  /\ permissionCache' = IF requiredPermissions = {} THEN permissionCache ELSE CacheAfterGet(u)
  /\ permRet' = PermRet(IF hasAnyPermission(u, requiredPermissions)
                        THEN "hasAnyPermission:true" ELSE "hasAnyPermission:false",
                        u, {}, requiredPermissions # {} /\ ~CacheHit(u))
  /\ UNCHANGED <<roleDocs, permissionDocs, invalidated>>
  /\ permFrame

ClearUserCache(u) ==
  /\ permissionCache' = [permissionCache EXCEPT ![u] = NoEntry]
  /\ permRet' = PermRet("clearUserCache", u, {}, FALSE)
  /\ invalidated' = [invalidated EXCEPT ![u] = TRUE]
  /\ UNCHANGED <<roleDocs, permissionDocs>>
  /\ permFrame

ClearCache ==
  /\ permissionCache' = [u \in Users |-> NoEntry]
  /\ permRet' = PermRet("clearCache", "", {}, FALSE)
  /\ invalidated' = [u \in Users |-> TRUE]
  /\ UNCHANGED <<roleDocs, permissionDocs>>
  /\ permFrame

NoRoleTask == [pc |-> "idle", role |-> "", ids |-> {}, current |-> {}]

NoLookup == [pc |-> "idle", user |-> "", now |-> 0, permissions |-> {}, clean |-> FALSE]

\* no lookup in flight, no invalidation made
LookupIdle ==
  /\ permTasks = [k \in Tasks |-> NoLookup]
  /\ invalidated = [u \in Users |-> FALSE]
  /\ roleTasks = [k \in Tasks |-> NoRoleTask]

lookupFrame == UNCHANGED <<roleTasks, stampVars, reaperVars, mailUp, newestOtp, raceVars, users, tokens, tokenBlacklist,
                           now, nextTokenId, issued, revoked, rotations, tasks, otps, nextOtpId,
                           audit, ret, roleDocs, permissionDocs, invalidated>>

\* getUserPermissions up to the cache test: const now = Date.now(), permissionCache.get
GetPermissionsStart(k, u) ==
  /\ permTasks[k].pc = "idle"
  /\ \A j \in Tasks : j < k => permTasks[j].pc # "idle"
  /\ IF CacheHit(u)
     THEN /\ permRet' = [op |-> "getUserPermissions", user |-> u,
                         permissions |-> permissionCache[u].permissions, read |-> FALSE,
                         clean |-> invalidated[u]]
          /\ UNCHANGED permTasks
     ELSE /\ permTasks' = [permTasks EXCEPT ![k] =
                             [pc |-> "read", user |-> u, now |-> now, permissions |-> {},
                              clean |-> invalidated[u]]]
          /\ permRet' = [op |-> "getUserPermissions:miss", user |-> u, permissions |-> {},
                         read |-> FALSE, clean |-> FALSE]
  /\ UNCHANGED permissionCache
  /\ lookupFrame

\* the awaited getUserPermissionsFromDB
GetPermissionsRead(k) ==
  LET t == permTasks[k] IN
  /\ t.pc = "read"
  /\ permTasks' = [permTasks EXCEPT ![k].pc = "set",
                                    ![k].permissions = getUserPermissionsFromDB(t.user)]
  /\ permRet' = [op |-> "getUserPermissions:read", user |-> t.user, permissions |-> {},
                 read |-> TRUE, clean |-> FALSE]
  /\ UNCHANGED permissionCache
  /\ lookupFrame

\* permissionCache.set(userId, {permissions, timestamp: now}) and the return
GetPermissionsSet(k) ==
  LET t == permTasks[k] IN
  /\ t.pc = "set"
  /\ permissionCache' = [permissionCache EXCEPT ![t.user] =
                           [cached |-> TRUE, permissions |-> t.permissions, timestamp |-> t.now]]
  /\ permTasks' = [permTasks EXCEPT ![k] = NoLookup]
  /\ permRet' = [op |-> "getUserPermissions", user |-> t.user, permissions |-> t.permissions,
                 read |-> TRUE, clean |-> t.clean]
  /\ lookupFrame

\* ------------------------------------------------- role administration
ExistingPermissionIds == {p.id : p \in permissionDocs}

roleFrame == UNCHANGED <<stampVars, permTasks, invalidated, reaperVars, mailUp, newestOtp, raceVars,
                         users, tokens, tokenBlacklist, now, nextTokenId, issued, revoked,
                         rotations, tasks, otps, nextOtpId, audit, ret, permissionCache>>

\* createPermission of a name not yet taken
CreatePermission(x) ==
  /\ Permission(x) \notin permissionDocs
  /\ permissionDocs' = permissionDocs \cup {Permission(x)}
  /\ permRet' = PermRet("createPermission", "", {}, FALSE)
  /\ UNCHANGED <<roleDocs, roleTasks>>
  /\ roleFrame

\* createRole: the permissions named must all exist
CreateRole(r, name, ids) ==
  /\ ~roleDocs[r].exists
  /\ \A q \in RoleIds : roleDocs[q].exists => roleDocs[q].name # name
  /\ IF ~(ids \subseteq ExistingPermissionIds)
     THEN /\ permRet' = PermRet("createRole:BAD_REQUEST", "", {}, FALSE)
          /\ UNCHANGED roleDocs
     ELSE /\ roleDocs' = [roleDocs EXCEPT ![r] = Role(name, TRUE, ids)]
          /\ permRet' = PermRet("createRole", "", {}, FALSE)
  /\ UNCHANGED <<permissionDocs, roleTasks>>
  /\ roleFrame

\* addPermissionsToRole up to its checks: roles.findOne, permissions.find
AddPermissionsCheck(k, r, ids) ==
  /\ roleTasks[k].pc = "idle"
  /\ IF ~roleDocs[r].exists
     THEN /\ permRet' = PermRet("addPermissionsToRole:NOT_FOUND", "", {}, FALSE)
          /\ UNCHANGED roleTasks
     ELSE IF ~(ids \subseteq ExistingPermissionIds)
     THEN /\ permRet' = PermRet("addPermissionsToRole:BAD_REQUEST", "", {}, FALSE)
          /\ UNCHANGED roleTasks
     ELSE /\ roleTasks' = [roleTasks EXCEPT ![k] =
                             [pc |-> "add", role |-> r, ids |-> ids,
                              current |-> roleDocs[r].permissions]]
          /\ permRet' = PermRet("addPermissionsToRole:checked", "", {}, FALSE)
  /\ UNCHANGED <<roleDocs, permissionDocs>>
  /\ roleFrame

\* roles.updateOne {_id} $set permissions: current and new ones
AddPermissionsWrite(k) ==
  LET t == roleTasks[k] IN
  /\ t.pc = "add"
  /\ roleDocs' = IF roleDocs[t.role].exists
                 THEN [roleDocs EXCEPT ![t.role].permissions = t.current \cup t.ids]
                 ELSE roleDocs
  /\ roleTasks' = [roleTasks EXCEPT ![k] = NoRoleTask]
  /\ permRet' = PermRet("addPermissionsToRole", "", {}, FALSE)
  /\ UNCHANGED permissionDocs
  /\ roleFrame

\* deletePermission up to its checks: permissions.findOne, roles.findOne {permissions: id}
DeletePermissionCheck(k, x) ==
  /\ roleTasks[k].pc = "idle"
  /\ IF x \notin ExistingPermissionIds
     THEN /\ permRet' = PermRet("deletePermission:NOT_FOUND", "", {}, FALSE)
          /\ UNCHANGED roleTasks
     ELSE IF \E r \in RoleIds : roleDocs[r].exists /\ x \in roleDocs[r].permissions
     THEN /\ permRet' = PermRet("deletePermission:CONFLICT", "", {}, FALSE)
          /\ UNCHANGED roleTasks
     ELSE /\ roleTasks' = [roleTasks EXCEPT ![k] =
                             [pc |-> "delete", role |-> "", ids |-> {x}, current |-> {}]]
          /\ permRet' = PermRet("deletePermission:checked", "", {}, FALSE)
  /\ UNCHANGED <<roleDocs, permissionDocs>>
  /\ roleFrame

\* permissions.findOneAndDelete {_id}
DeletePermissionDelete(k) ==
  LET t == roleTasks[k] IN
  /\ t.pc = "delete"
  /\ permissionDocs' = {p \in permissionDocs : p.id \notin t.ids}
  /\ roleTasks' = [roleTasks EXCEPT ![k] = NoRoleTask]
  /\ permRet' = PermRet("deletePermission", "", {}, FALSE)
  /\ UNCHANGED roleDocs
  /\ roleFrame

\* roleService.updateRole(id, {is_active}): no cache entry is cleared
UpdateRoleActive(r, is_active) ==
  /\ roleDocs[r].exists
  /\ roleDocs' = [roleDocs EXCEPT ![r].is_active = is_active]
  /\ permRet' = PermRet("updateRole", "", {}, FALSE)
  /\ invalidated' = [u \in Users |-> FALSE]
  /\ UNCHANGED <<permissionDocs, permissionCache>>
  /\ permFrame

\* ------------------------------------------------------------ admin gates
Admin == "Admin"

\* the rows roles.findOne {name: Admin} can return
AdminRoleIds == {r \in RoleIds : roleDocs[r].exists /\ roleDocs[r].name = Admin}

Admitted == [ok |-> TRUE, status |-> "", message |-> ""]

Refused(status, message) == [ok |-> FALSE, status |-> status, message |-> message]

\* adminMiddleware, with adminRole the row its roles.findOne returned ("" for none)
adminMiddleware(userId, adminRole) ==
  LET user == IF userId \in Users THEN users[userId] ELSE NoUser IN
  IF userId = "" THEN Refused("UN_AUTHORIZED", "User ID is missing")
  ELSE IF ~user.exists THEN Refused("NOT_FOUND", "User not found")
  ELSE IF adminRole = "" THEN Refused("INTERNAL_SERVER_ERROR", "Admin role not found in system")
  ELSE IF adminRole \notin user.roles
    THEN Refused("FORBIDDEN", "You do not have permission to assign roles")
  ELSE Admitted

\* permissionService.hasRoles
hasRoles(userId, requiredRoles) ==
  LET user == IF userId \in Users THEN users[userId] ELSE NoUser
      roleNames == {roleDocs[r].name : r \in ActiveRolesOf(user)} IN
  IF requiredRoles = {} THEN TRUE
  ELSE IF ~user.exists \/ user.roles = {} THEN FALSE
  ELSE requiredRoles \cap roleNames # {}

gateFrame ==
  UNCHANGED <<users, tokens, tokenBlacklist, now, nextTokenId, issued, revoked, rotations, tasks,
              otps, nextOtpId, audit, sideVars>>

\* a request passing through adminMiddleware
AdminMiddleware(u) ==
  \E adminRole \in (IF AdminRoleIds = {} THEN {""} ELSE AdminRoleIds) :
    LET res == adminMiddleware(u, adminRole) IN
    /\ ret' = Ret("adminMiddleware", res.ok, res.status, res.message, u, NoToken)
    /\ gateFrame

\* a request passing through the hasRoles(roles) middleware of authorize(roles)
HasRoles(u, roles) ==
  /\ ret' = IF hasRoles(u, roles)
            THEN Ret("hasRoles", TRUE, "", "", u, NoToken)
            ELSE Ret("hasRoles", FALSE, "FORBIDDEN",
                     "You do not have permission to access this resource", u, NoToken)
  /\ gateFrame

\* ------------------------------------------------------- one-time codes
EmailVerification == "email_verification"
PasswordReset == "password_reset"

NoOtp == [id |-> 0, user_id |-> "", code |-> <<>>, expired_at |-> 0, type |-> "", is_used |-> FALSE]

\* no code was issued yet
OtpHistoryIdle ==
  newestOtp = [u \in Users |-> [ty \in {EmailVerification, PasswordReset} |-> NoOtp]]

NoVerify == [pc |-> "idle", type |-> "", user |-> "", id |-> 0]

\* no verification in flight, no code consumed
VerifyIdle ==
  /\ verifyTasks = [k \in Tasks |-> NoVerify]
  /\ otpSuccesses = [i \in 1..MaxOtps |-> 0]

\* ------------------------------------------------------ token timestamps
NoPayload == [pc |-> "idle", type |-> "", sub |-> "", iat |-> 0, exp |-> 0]

StampIdle == clockMs = 0 /\ building = NoPayload

\* parseInt(env.ACCESS_TOKEN_EXPIRESIN), ..REFRESH.., ..FORGOT_PASSWORD..
ExpiresIn(type) ==
  CASE type = AccessToken -> AccessTTL
    [] type = RefreshToken -> RefreshTTL
    [] OTHER -> ForgotPasswordTTL

\* Math.floor(Date.now() / 1000)
EpochSeconds(ms) == ms \div MsPerSecond

stampFrame == UNCHANGED <<users, tokens, tokenBlacklist, now, nextTokenId, issued, revoked,
                          rotations, tasks, otps, nextOtpId, audit, ret, permVars, lookupVars,
                          reaperVars, mailUp, newestOtp, raceVars>>

\* the payload literal is evaluated field by field: iat reads the clock
PayloadIat(type, userId) ==
  /\ building.pc = "idle"
  /\ building' = [pc |-> "exp", type |-> type, sub |-> userId,
                  iat |-> EpochSeconds(clockMs), exp |-> 0]
  /\ UNCHANGED clockMs
  /\ stampFrame

\* exp reads the clock again
PayloadExp ==
  /\ building.pc = "exp"
  /\ building' = [building EXCEPT !.pc = "signed",
                                  !.exp = EpochSeconds(clockMs) + ExpiresIn(building.type)]
  /\ UNCHANGED clockMs
  /\ stampFrame

\* jwt.sign(payload, key) returns the token
PayloadSign ==
  /\ building.pc = "signed"
  /\ building' = NoPayload
  /\ UNCHANGED clockMs
  /\ stampFrame

\* a millisecond passes
ClockAdvance ==
  /\ clockMs < MaxClockMs
  /\ clockMs' = clockMs + 1
  /\ UNCHANGED building
  /\ stampFrame

\* ----------------------------------------------------------------- mail
\* the transporter accepts mail when the process starts
MailIdle == mailUp = TRUE

\* what the client gets when sendMail rejects: the error is rethrown up to the error handler
MailFailure(op, u) == Ret(op, FALSE, "INTERNAL_SERVER_ERROR", "sendMail failed", u, NoToken)

\* the mail transport stops or resumes accepting messages
MailOutage ==
  /\ mailUp' = ~mailUp
  /\ UNCHANGED <<users, tokens, tokenBlacklist, now, nextTokenId, issued, revoked, rotations,
                 tasks, otps, nextOtpId, audit, ret, permVars, lookupVars, reaperVars, newestOtp, raceVars,
                 stampVars>>

\* ------------------------------------------------------ cleanup scheduler
NoTimer == 0

NoReaperLog == [op |-> "", outcome |-> "", purged |-> 0, failed |-> FALSE]

ReaperLog(op, outcome, purged) ==
  [op |-> op, outcome |-> outcome, purged |-> purged,
   failed |-> reaperLog.failed \/ outcome = "failed"]

\* module load: no interval, no timer, the store answering
ReaperIdle ==
  /\ tokenCleanupInterval = NoTimer
  /\ timers = {}
  /\ nextTimerId = 1
  /\ storeUp = TRUE
  /\ reaperLog = NoReaperLog

\* a scheduler that never cancels a timer
leaveInterval(scheduled, id) == scheduled

clearInterval(scheduled, id) == scheduled \ {id}

\* a callback without the try/catch: the rejection leaves the callback
sweepOutcomeUncaught(up) == IF up THEN "completed" ELSE "uncaught"

\* the callback's try/catch: a rejected cleanupExpiredTokens is logged
sweepOutcome(up) == IF up THEN "completed" ELSE "failed"

reaperFrame == UNCHANGED <<users, tokenBlacklist, now, nextTokenId, issued, revoked, rotations,
                           tasks, otps, nextOtpId, audit, ret, permVars, lookupVars, mailUp, newestOtp, raceVars,
                           stampVars>>

StartTokenCleanup ==
  /\ nextTimerId <= MaxTimers
  /\ timers' = (IF tokenCleanupInterval # NoTimer
                THEN clearInterval(timers, tokenCleanupInterval) ELSE timers)
               \cup {nextTimerId}
  /\ tokenCleanupInterval' = nextTimerId
  /\ nextTimerId' = nextTimerId + 1
  /\ reaperLog' = ReaperLog("startTokenCleanup",
                            IF tokenCleanupInterval # NoTimer THEN "replaced" ELSE "scheduled", 0)
  /\ UNCHANGED <<tokens, storeUp>>
  /\ reaperFrame

StopTokenCleanup ==
  /\ IF tokenCleanupInterval # NoTimer
     THEN /\ timers' = clearInterval(timers, tokenCleanupInterval)
          /\ tokenCleanupInterval' = NoTimer
     ELSE UNCHANGED <<timers, tokenCleanupInterval>>
  /\ reaperLog' = ReaperLog("stopTokenCleanup",
                            IF tokenCleanupInterval # NoTimer THEN "stopped" ELSE "", 0)
  /\ UNCHANGED <<tokens, nextTimerId, storeUp>>
  /\ reaperFrame

\* one firing of interval timer t: the callback runs cleanupExpiredTokens
ScheduledSweep(t) ==
  /\ t \in timers
  /\ LET outcome == sweepOutcome(storeUp) IN
     /\ tokens' = IF outcome = "completed" THEN cleanupExpiredTokens(tokens, now) ELSE tokens
     /\ reaperLog' = ReaperLog("scheduledSweep", outcome,
                               Cardinality(tokens) - Cardinality(tokens'))
     /\ IF outcome = "uncaught"
        THEN timers' = {} /\ tokenCleanupInterval' = NoTimer
        ELSE UNCHANGED <<timers, tokenCleanupInterval>>
  /\ UNCHANGED <<nextTimerId, storeUp>>
  /\ reaperFrame

\* the database stops or resumes answering
StoreOutage ==
  /\ storeUp' = ~storeUp
  /\ UNCHANGED <<tokens, tokenCleanupInterval, timers, nextTimerId, reaperLog>>
  /\ reaperFrame

\* ------------------------------------------------------------------- Init
ActiveUsers ==
  [u \in Users |->
     IF u = "u1" THEN User("p1", "Verified", FALSE, FALSE, {"Student"})
     ELSE User("p1", "Verified", TRUE, FALSE, {"Instructor"})]

AuthInit(userTable, auditing) ==
  /\ users = userTable
  /\ tokens = {}
  /\ tokenBlacklist = {}
  /\ now = 0
  /\ nextTokenId = 1
  /\ issued = {}
  /\ revoked = {}
  /\ rotations = {}
  /\ tasks = [k \in Tasks |-> Idle]
  /\ otps = {}
  /\ nextOtpId = 1
  /\ audit = auditing
  /\ ret = NoRet

InitWith(userTable, auditing) == AuthInit(userTable, auditing) /\ PermissionIdle /\ ReaperIdle /\ MailIdle /\ OtpHistoryIdle /\ VerifyIdle /\ LookupIdle /\ StampIdle /\ MailIdle

Init == InitWith(ActiveUsers, FALSE)

\* ------------------------------------------------------- token generation
generateAccessToken(userId, roles) == AccessJwt(userId, roles, now + AccessTTL)

generateRefreshToken(userId) == RefreshJwt(userId, nextTokenId, now + RefreshTTL)

\* the access token of the pair that refresh token r came in
AccessOf(r) == AccessJwt(r.sub, users[r.sub].roles, (r.exp - RefreshTTL) + AccessTTL)

IssuedTokens == issued \cup {AccessOf(r) : r \in issued}

\* what a client can present: anything issued, a forgery of it, or no JWT at all
Presentable == IssuedTokens \cup {Forged(t) : t \in IssuedTokens} \cup {Garbage}

\* generateAuthTokens: the store and counters after issuing one pair to userId
IssuePair(userId, roles) ==
  /\ nextTokenId <= MaxTokens
  /\ tokens' = tokens \cup {TokenRow(generateRefreshToken(userId))}
  /\ nextTokenId' = nextTokenId + 1
  /\ issued' = issued \cup {generateRefreshToken(userId)}

\* ------------------------------------------------------------------ login
isInstructor(user) == "instructor" \in {IF r = "Instructor" THEN "instructor" ELSE r : r \in user.roles}

\* a login that checks the credentials only
LoginErrorUngated(user, password) ==
  IF ~user.exists \/ user.is_removed THEN "Invalid email or password"
  ELSE IF ~comparePassword(password, user.password) THEN "Invalid email or password"
  ELSE ""

LoginError(user, password) ==
  IF ~user.exists \/ user.is_removed THEN "Invalid email or password"
  ELSE IF ~comparePassword(password, user.password) THEN "Invalid email or password"
  ELSE IF ~isInstructor(user) /\ user.verify # "Verified"
    THEN "Your account is not verified. Please check your email for verification instructions."
  ELSE IF isInstructor(user) /\ ~user.is_approved
    THEN "Your instructor account is pending approval by an administrator."
  ELSE ""

Login(u, password) ==
  LET user == users[u]
      err == LoginError(user, password) IN
  /\ IF err # ""
     THEN /\ ret' = Ret("login", FALSE, "UN_AUTHORIZED", err, u, NoToken)
          /\ UNCHANGED <<tokens, nextTokenId, issued>>
     ELSE /\ IssuePair(u, user.roles)
          /\ ret' = Ret("login", TRUE, "CREATED", "", u, generateRefreshToken(u))
  /\ UNCHANGED <<users, tokenBlacklist, now, revoked, rotations, tasks, otps, nextOtpId, audit, sideVars>>

\* ----------------------------------------------------------- reissueToken
\* the ErrorWithStatus thrown when validationResult.valid is false
ReissueRefusal(res) ==
  [status |-> "UN_AUTHORIZED",
   message |-> IF res.error # "" THEN res.error ELSE "Invalid token"]

\* a rejected store call inside reissueToken's try: the catch answers 401 Invalid token
StoreFailure(op, u) == Ret(op, FALSE, "UN_AUTHORIZED", "Invalid token", u, NoToken)

\* validateToken(refreshToken, RefreshToken) and the check of its result
ReissueValidate(k, token) ==
  LET res == validateToken(token, RefreshToken) IN
  /\ tasks[k].pc = "idle"
  /\ \A j \in Tasks : j < k => tasks[j].pc # "idle"
  /\ IF ~res.valid
     THEN /\ ret' = Ret("reissueToken", FALSE, ReissueRefusal(res).status,
                        ReissueRefusal(res).message, "", NoToken)
          /\ UNCHANGED tasks
     ELSE /\ tasks' = [tasks EXCEPT ![k] = [pc |-> "user", token |-> token, sub |-> res.sub]]
          /\ ret' = Ret("reissueToken:validated", TRUE, "", "", res.sub, token)
  /\ UNCHANGED <<users, tokens, tokenBlacklist, now, nextTokenId, issued, revoked, rotations, otps, nextOtpId, audit, sideVars>>

\* users.findOne {_id, is_removed: false}; then invalidateToken starts: blacklist.add
ReissueFindUser(k) ==
  LET t == tasks[k]
      user == users[t.sub] IN
  /\ t.pc = "user"
  /\ IF ~storeUp
     THEN /\ ret' = StoreFailure("reissueToken", t.sub)
          /\ tasks' = [tasks EXCEPT ![k] = Idle]
          /\ UNCHANGED tokenBlacklist
     ELSE IF ~user.exists \/ user.is_removed
     THEN /\ ret' = Ret("reissueToken", FALSE, "NOT_FOUND", "User not found", t.sub, NoToken)
          /\ tasks' = [tasks EXCEPT ![k] = Idle]
          /\ tokenBlacklist' = blacklistOnThrow(tokenBlacklist, t.token)
     ELSE /\ tokenBlacklist' = tokenBlacklist \cup {t.token}
          /\ tasks' = [tasks EXCEPT ![k].pc = "revoke"]
          /\ ret' = Ret("reissueToken:blacklisted", TRUE, "", "", t.sub, t.token)
  /\ UNCHANGED <<users, tokens, now, nextTokenId, issued, revoked, rotations, otps, nextOtpId, audit, sideVars>>

\* invalidateToken's tokens.updateOne, after which invalidateToken returns; a rejected
\* updateOne is caught and logged inside invalidateToken
ReissueRevoke(k) ==
  LET t == tasks[k] IN
  /\ t.pc = "revoke"
  /\ tokens' = IF storeUp THEN RevokeRow(tokens, t.token) ELSE tokens
  /\ revoked' = revoked \cup {t.token}
  /\ tasks' = [tasks EXCEPT ![k].pc = "issue"]
  /\ ret' = Ret("reissueToken:revoked", TRUE, "", "", t.sub, t.token)
  /\ UNCHANGED <<users, tokenBlacklist, now, nextTokenId, issued, rotations, otps, nextOtpId, audit, sideVars>>

\* generateAccessToken, then generateRefreshToken's tokens.insertOne, then return
ReissueIssue(k) ==
  LET t == tasks[k] IN
  /\ t.pc = "issue"
  /\ IF storeUp
     THEN /\ IssuePair(t.sub, users[t.sub].roles)
          /\ ret' = Ret("reissueToken", TRUE, "OK", "", t.sub, t.token)
          /\ rotations' = rotations \cup {[old |-> t.token, new |-> generateRefreshToken(t.sub)]}
     ELSE /\ ret' = StoreFailure("reissueToken", t.sub)
          /\ UNCHANGED <<tokens, nextTokenId, issued, rotations>>
  /\ tasks' = [tasks EXCEPT ![k] = Idle]
  /\ UNCHANGED <<users, tokenBlacklist, now, revoked, otps, nextOtpId, audit, sideVars>>

\* ----------------------------------------------------------------- logout
\* invalidateToken: blacklist.add, then updateOne is_removed
Logout(token) ==
  LET res == validateToken(token, RefreshToken) IN
  /\ IF ~res.valid
     THEN /\ ret' = Ret("logout", FALSE, "UN_AUTHORIZED", res.error, "", NoToken)
          /\ tokenBlacklist' = blacklistOnThrow(tokenBlacklist, token)
          /\ UNCHANGED <<tokens, revoked>>
     ELSE /\ tokenBlacklist' = tokenBlacklist \cup {token}
          /\ tokens' = RevokeRow(tokens, token)
          /\ revoked' = revoked \cup {token}
          /\ ret' = Ret("logout", TRUE, "OK", "", res.sub, token)
  /\ UNCHANGED <<users, now, nextTokenId, issued, rotations, tasks, otps, nextOtpId, audit, sideVars>>

\* POST /logout-all runs behind authMiddleware, so userId is an active user
LogoutFromAllDevices(u) ==
  /\ users[u].exists /\ ~users[u].is_removed
  /\ tokens' = invalidateAllUserRefreshTokens(tokens, u)
  /\ revoked' = revoked \cup {JwtOfRow(r) : r \in RowsOf(tokens, u)}
  /\ ret' = Ret("logoutFromAllDevices", TRUE, "OK", "", u, NoToken)
  /\ UNCHANGED <<users, tokenBlacklist, now, nextTokenId, issued, rotations, tasks, otps, nextOtpId, audit, sideVars>>

\* the user row is soft-deleted by user administration (Base.is_removed)
RemoveUser(u) ==
  /\ users[u].exists /\ ~users[u].is_removed
  /\ users' = [users EXCEPT ![u].is_removed = TRUE]
  /\ ret' = Ret("removeUser", TRUE, "OK", "", u, NoToken)
  /\ UNCHANGED <<tokens, tokenBlacklist, now, nextTokenId, issued, revoked, rotations, tasks, otps,
                 nextOtpId, audit, sideVars>>

\* --------------------------------------------------------- changePassword
ChangePasswordError(user, current_password, new_password) ==
  IF ~user.exists THEN "User not found"
  ELSE IF ~comparePassword(current_password, user.password) THEN "Old password does not match"
  ELSE IF comparePassword(new_password, user.password)
    THEN "New password must be different from current password"
  ELSE ""

ChangePassword(u, current_password, new_password) ==
  LET err == ChangePasswordError(users[u], current_password, new_password) IN
  /\ users[u].exists /\ ~users[u].is_removed
  /\ IF err # ""
     THEN /\ ret' = Ret("changePassword", FALSE, "BAD_REQUEST", err, u, NoToken)
          /\ UNCHANGED <<users, tokens, revoked>>
     ELSE /\ users' = [users EXCEPT ![u].password = hashPassword(new_password)]
          /\ tokens' = invalidateAllUserRefreshTokens(tokens, u)
          /\ revoked' = revoked \cup {JwtOfRow(r) : r \in RowsOf(tokens, u)}
          /\ ret' = Ret("changePassword", TRUE, "OK", "", u, NoToken)
  /\ UNCHANGED <<tokenBlacklist, now, nextTokenId, issued, rotations, tasks, otps, nextOtpId, audit, sideVars>>

\* -------------------------------------------------------------------- OTP

encryptOTP(otp) == <<"hmac-sha256", otp>>

\* a comparison that accepts any code
verifyAnyOTP(plainOtp, encryptedOtp) == TRUE

verifyOTP(plainOtp, encryptedOtp) == encryptOTP(plainOtp) = encryptedOtp

createOTPExpiration == now + OtpTTL

Otp(user_id, plainOtp, type) ==
  [id |-> nextOtpId, user_id |-> user_id, code |-> encryptOTP(plainOtp),
   expired_at |-> createOTPExpiration, type |-> type, is_used |-> FALSE]

\* findOne(filter, {sort: {created_at: -1}}) over the rows matching the filter
MostRecent(rows) == CHOOSE o \in rows : \A p \in rows : p.id <= o.id

\* otps.findOne of verifyPasswordResetOTP
FindResetOtp(userId) ==
  {o \in otps : o.user_id = userId /\ o.type = PasswordReset /\ o.expired_at > now}

\* otps.findOne of verifyOTP
FindEmailOtp(userId) ==
  {o \in otps : /\ o.user_id = userId /\ o.type = EmailVerification
                /\ o.expired_at > now /\ o.is_used # TRUE}

MarkUsed(rows, o) == {IF r.id = o.id THEN [r EXCEPT !.is_used = TRUE] ELSE r : r \in rows}

\* otps.deleteMany of resetPassword
DeleteResetOtps(rows, userId) ==
  {o \in rows : ~(o.user_id = userId /\ o.type = PasswordReset /\ o.is_used = TRUE)}

\* --------------------------------------------------------------- register
\* registerValidator rejects an email that is already registered
Register(u, role, password, plainOtp) ==
  LET roleName == IF role = "instructor" THEN "Instructor" ELSE "Student"
      verifyStatus == IF roleName = "Instructor" THEN "Verified" ELSE "Unverified" IN
  /\ ~users[u].exists
  /\ users' = [users EXCEPT ![u] = User(password, verifyStatus, FALSE, FALSE, {roleName})]
  /\ IssuePair(u, {roleName})
  /\ IF roleName = "Student"
     THEN /\ nextOtpId <= MaxOtps
          /\ otps' = {o \in otps : o.user_id # u} \cup {Otp(u, plainOtp, EmailVerification)}
          /\ nextOtpId' = nextOtpId + 1
          /\ newestOtp' = [newestOtp EXCEPT ![u][EmailVerification] =
                                              Otp(u, plainOtp, EmailVerification)]
     ELSE UNCHANGED <<otps, nextOtpId, newestOtp>>
  /\ ret' = IF roleName = "Student" /\ ~mailUp THEN MailFailure("register", u)
            ELSE Ret("register", TRUE, "CREATED", "", u, generateRefreshToken(u))
  /\ UNCHANGED <<tokenBlacklist, now, revoked, rotations, tasks, audit, quietVars, raceVars>>

\* --------------------------------------------------------- forgotPassword
\* what the caller of forgotPassword(email of u) is answered in the current state
ForgotPasswordOutcome(u) ==
  IF ~users[u].exists THEN [ok |-> FALSE, status |-> "NOT_FOUND", message |-> "User not found"]
  ELSE IF ~mailUp THEN [ok |-> FALSE, status |-> MailFailure("forgotPassword", u).status,
                        message |-> MailFailure("forgotPassword", u).message]
  ELSE [ok |-> TRUE, status |-> "OK", message |-> ""]

ForgotPassword(u, plainOtp) ==
  /\ IF ~users[u].exists
     THEN /\ ret' = Ret("forgotPassword", FALSE, "NOT_FOUND", "User not found", u, NoToken)
          /\ UNCHANGED <<otps, nextOtpId, newestOtp>>
     ELSE /\ nextOtpId <= MaxOtps
          /\ otps' = {o \in otps : ~(o.user_id = u /\ o.type = PasswordReset)}
                       \cup {Otp(u, plainOtp, PasswordReset)}
          /\ nextOtpId' = nextOtpId + 1
          /\ newestOtp' = [newestOtp EXCEPT ![u][PasswordReset] = Otp(u, plainOtp, PasswordReset)]
          /\ ret' = IF ~mailUp THEN MailFailure("forgotPassword", u)
                    ELSE Ret("forgotPassword", TRUE, "OK", "", u, NoToken)
  /\ UNCHANGED <<users, tokens, tokenBlacklist, now, nextTokenId, issued, revoked, rotations,
                 tasks, audit, quietVars, raceVars>>

\* -------------------------------------------------------------- resendOTP
ResendOTP(u, type, plainOtp) ==
  /\ IF ~users[u].exists
     THEN /\ ret' = Ret("resendOTP", FALSE, "NOT_FOUND", "User not found", u, NoToken)
          /\ UNCHANGED <<otps, nextOtpId, newestOtp>>
     ELSE /\ nextOtpId <= MaxOtps
          /\ otps' = otps \cup {Otp(u, plainOtp, type)}
          /\ nextOtpId' = nextOtpId + 1
          /\ newestOtp' = [newestOtp EXCEPT ![u][type] = Otp(u, plainOtp, type)]
          /\ ret' = IF ~mailUp THEN MailFailure("resendOTP", u)
                    ELSE Ret("resendOTP", TRUE, "OK", "", u, NoToken)
  /\ UNCHANGED <<users, tokens, tokenBlacklist, now, nextTokenId, issued, revoked, rotations,
                 tasks, audit, quietVars, raceVars>>

\* ------------------------------------------------- verifyPasswordResetOTP
VerifyResetError(u, otp) ==
  IF ~users[u].exists THEN "User not found"
  ELSE IF FindResetOtp(u) = {} THEN "Invalid or expired OTP code"
  ELSE IF ~verifyOTP(otp, MostRecent(FindResetOtp(u)).code) THEN "Invalid or expired OTP code"
  ELSE ""

VerifyPasswordResetOTP(u, otp) ==
  LET err == VerifyResetError(u, otp) IN
  /\ IF err # ""
     THEN /\ ret' = Ret("verifyPasswordResetOTP", FALSE,
                        IF users[u].exists THEN "BAD_REQUEST" ELSE "NOT_FOUND", err, u, NoToken)
          /\ UNCHANGED otps
     ELSE /\ otps' = MarkUsed(otps, MostRecent(FindResetOtp(u)))
          /\ ret' = Ret("verifyPasswordResetOTP", TRUE, "OK", "", u, NoToken)
  /\ UNCHANGED <<users, tokens, tokenBlacklist, now, nextTokenId, issued, revoked, rotations,
                 tasks, nextOtpId, audit, sideVars>>

\* -------------------------------------------------------------- verifyOTP
VerifyEmailError(u, otp) ==
  IF ~users[u].exists THEN "User not found"
  ELSE IF users[u].verify = "Verified" THEN "Invalid or expired OTP code"
  ELSE IF FindEmailOtp(u) = {} THEN "Invalid or expired OTP code"
  ELSE IF ~verifyOTP(otp, MostRecent(FindEmailOtp(u)).code) THEN "Invalid or expired OTP code"
  ELSE ""

VerifyOTP(u, otp) ==
  LET err == VerifyEmailError(u, otp) IN
  /\ IF err # ""
     THEN /\ ret' = Ret("verifyOTP", FALSE,
                        IF users[u].exists THEN "BAD_REQUEST" ELSE "NOT_FOUND", err, u, NoToken)
          /\ UNCHANGED <<otps, users>>
     ELSE /\ otps' = MarkUsed(otps, MostRecent(FindEmailOtp(u)))
          /\ users' = [users EXCEPT ![u].verify = "Verified"]
          /\ ret' = Ret("verifyOTP", TRUE, "OK", "", u, NoToken)
  /\ UNCHANGED <<tokens, tokenBlacklist, now, nextTokenId, issued, revoked, rotations,
                 tasks, nextOtpId, audit, sideVars>>

\* ------------------------------------- verification, one store call at a time
\* verifyOTP / verifyPasswordResetOTP up to the comparison: users.findOne, otps.findOne,
\* verifyOTP(otp, otpRecord.code)
VerifyFind(k, type, u, otp) ==
  LET err == IF type = EmailVerification THEN VerifyEmailError(u, otp) ELSE VerifyResetError(u, otp)
      record == IF type = EmailVerification THEN MostRecent(FindEmailOtp(u))
                ELSE MostRecent(FindResetOtp(u))
      op == IF type = EmailVerification THEN "verifyOTP" ELSE "verifyPasswordResetOTP" IN
  /\ verifyTasks[k].pc = "idle"
  /\ \A j \in Tasks : j < k => verifyTasks[j].pc # "idle"
  /\ IF err # ""
     THEN /\ ret' = Ret(op, FALSE, IF users[u].exists THEN "BAD_REQUEST" ELSE "NOT_FOUND",
                        err, u, NoToken)
          /\ UNCHANGED verifyTasks
     ELSE /\ verifyTasks' = [verifyTasks EXCEPT ![k] =
                               [pc |-> "update", type |-> type, user |-> u, id |-> record.id]]
          /\ ret' = Ret(op, TRUE, "", "found", u, NoToken)
  /\ UNCHANGED <<users, otps, otpSuccesses, tokens, tokenBlacklist, now, nextTokenId, issued,
                 revoked, rotations, tasks, nextOtpId, audit, quietVars, newestOtp>>

\* the rest of the call: otps.updateOne {_id}, and for verifyOTP users.updateOne; it returns
\* success whatever the updates matched
VerifyUpdate(k) ==
  LET t == verifyTasks[k]
      op == IF t.type = EmailVerification THEN "verifyOTP" ELSE "verifyPasswordResetOTP" IN
  /\ t.pc = "update"
  /\ otps' = MarkUsed(otps, [id |-> t.id])
  /\ users' = IF t.type = EmailVerification /\ users[t.user].exists
              THEN [users EXCEPT ![t.user].verify = "Verified"] ELSE users
  /\ otpSuccesses' = [otpSuccesses EXCEPT ![t.id] = IF @ < MaxSuccesses THEN @ + 1 ELSE @]
  /\ verifyTasks' = [verifyTasks EXCEPT ![k] = NoVerify]
  /\ ret' = Ret(op, TRUE, "OK", "", t.user, NoToken)
  /\ UNCHANGED <<tokens, tokenBlacklist, now, nextTokenId, issued, revoked, rotations, tasks,
                 nextOtpId, audit, quietVars, newestOtp>>

\* ---------------------------------------------------------- resetPassword
ResetPasswordError(user, password) ==
  IF ~user.exists THEN "User not found"
  ELSE IF comparePassword(password, user.password)
    THEN "New password must be different from current password"
  ELSE ""

ResetPassword(u, password) ==
  LET err == ResetPasswordError(users[u], password) IN
  /\ IF err # ""
     THEN /\ ret' = Ret("resetPassword", FALSE,
                        IF users[u].exists THEN "BAD_REQUEST" ELSE "NOT_FOUND", err, u, NoToken)
          /\ UNCHANGED <<users, tokens, revoked, otps>>
     ELSE /\ users' = [users EXCEPT ![u].password = hashPassword(password)]
          /\ tokens' = invalidateAllUserRefreshTokens(tokens, u)
          /\ revoked' = revoked \cup {JwtOfRow(r) : r \in RowsOf(tokens, u)}
          /\ otps' = DeleteResetOtps(otps, u)
          /\ ret' = Ret("resetPassword", TRUE, "OK", "", u, NoToken)
  /\ UNCHANGED <<tokenBlacklist, now, nextTokenId, issued, rotations, tasks, nextOtpId, audit, sideVars>>

\* ------------------------------------------- validate-token, authMiddleware
\* the controller's answer to a validation result that is not valid
ValidateTokenResponse(res) ==
  [status |-> IF res.expired THEN "UN_AUTHORIZED" ELSE "BAD_REQUEST",
   message |-> IF res.error # "" THEN res.error ELSE "Invalid token"]

ValidateTokenEndpoint(token, tokenType) ==
  LET res == validateToken(token, tokenType) IN
  /\ ret' = IF res.valid
            THEN Ret("validate-token", TRUE, "OK", "Token is valid", res.sub, NoToken)
            ELSE Ret("validate-token", FALSE, ValidateTokenResponse(res).status,
                     ValidateTokenResponse(res).message, "", NoToken)
  /\ UNCHANGED <<users, tokens, tokenBlacklist, now, nextTokenId, issued, revoked, rotations, tasks, otps, nextOtpId, audit, sideVars>>

\* the ErrorWithStatus authMiddleware passes to next() for a result that is not valid
AuthMiddlewareError(res) ==
  IF res.expired
  THEN [status |-> "UN_AUTHORIZED", message |-> "Token has expired", branch |-> "expired"]
  ELSE [status |-> "UN_AUTHORIZED",
        message |-> IF res.error # "" THEN res.error ELSE "Invalid or expired access token",
        branch |-> "invalid"]

AuthMiddlewareResult(token) ==
  LET res == validateToken(token, AccessToken) IN
  IF ~res.valid
  THEN Ret("authMiddleware", FALSE, AuthMiddlewareError(res).status,
           AuthMiddlewareError(res).message, "", NoToken)
  ELSE IF ~users[res.sub].exists \/ users[res.sub].is_removed
       THEN Ret("authMiddleware", FALSE, "NOT_FOUND", "User not found", res.sub, NoToken)
       ELSE Ret("authMiddleware", TRUE, "", "", res.sub, NoToken)

AuthMiddleware(token) ==
  /\ ret' = AuthMiddlewareResult(token)
  /\ UNCHANGED <<users, tokens, tokenBlacklist, now, nextTokenId, issued, revoked, rotations, tasks, otps, nextOtpId, audit, sideVars>>

\* ------------------------------------------------------------ environment
Tick ==
  /\ now < MaxTime
  /\ now' = now + 1
  /\ ret' = Ret("tick", TRUE, "", "", "", NoToken)
  /\ UNCHANGED <<users, tokens, tokenBlacklist, nextTokenId, issued, revoked, rotations, tasks, otps, nextOtpId, audit, sideVars>>

\* the reaper's sweep
CleanupExpiredTokens ==
  /\ tokens' = cleanupExpiredTokens(tokens, now)
  /\ ret' = Ret("cleanupExpiredTokens", TRUE, "", "", "", NoToken)
  /\ UNCHANGED <<users, tokenBlacklist, now, nextTokenId, issued, revoked, rotations, tasks, otps, nextOtpId, audit, sideVars>>

\* a fresh process: the module-level blacklist is empty and no call is in flight
Restart ==
  /\ tokenBlacklist' = {}
  /\ tasks' = [k \in Tasks |-> Idle]
  /\ ret' = Ret("restart", TRUE, "", "", "", NoToken)
  /\ UNCHANGED <<users, tokens, now, nextTokenId, issued, revoked, rotations, otps, nextOtpId, audit, sideVars>>

\* ------------------------------------------------------- specifications
\* the session lifecycle: login, rotation, logout, the reaper, restarts
Next ==
  \/ \E u \in Users, p \in Passwords : Login(u, p)
  \/ \E k \in Tasks, t \in Presentable : ReissueValidate(k, t)
  \/ \E k \in Tasks : ReissueFindUser(k)
  \/ \E k \in Tasks : ReissueRevoke(k)
  \/ \E k \in Tasks : ReissueIssue(k)
  \/ \E t \in Presentable : Logout(t)
  \/ \E u \in Users : LogoutFromAllDevices(u)
  \/ Tick
  \/ CleanupExpiredTokens
  \/ Restart

Spec == Init /\ [][Next]_vars

\* token validation as the validate-token endpoint and authMiddleware see it
NextValidate ==
  \/ \E u \in Users, p \in Passwords : Login(u, p)
  \/ \E t \in Presentable : Logout(t)
  \/ \E t \in Presentable, ty \in {AccessToken, RefreshToken} : ValidateTokenEndpoint(t, ty)
  \/ \E t \in Presentable : AuthMiddleware(t)
  \/ Tick

SpecValidate == InitWith(ActiveUsers, TRUE) /\ [][NextValidate]_vars

\* one-time codes: registration, forgot/resend, the two verifications, reset
OtpUsers ==
  [u \in Users |-> IF u = "u1" THEN NoUser
                   ELSE User("p1", "Verified", FALSE, FALSE, {"Student"})]

NextOtp ==
  \/ \E u \in Users, r \in {"student", "instructor"}, c \in Codes : Register(u, r, "p1", c)
  \/ \E u \in Users, c \in Codes : ForgotPassword(u, c)
  \/ \E u \in Users, ty \in {EmailVerification, PasswordReset}, c \in Codes : ResendOTP(u, ty, c)
  \/ \E u \in Users, c \in Codes : VerifyPasswordResetOTP(u, c)
  \/ \E u \in Users, c \in Codes : VerifyOTP(u, c)
  \/ \E u \in Users, p \in Passwords : ResetPassword(u, p)
  \/ Tick

SpecOtp == InitWith(OtpUsers, TRUE) /\ [][NextOtp]_vars

\* passwords and login gating, over the kinds of principal the users collection holds
UserSeeds ==
  { NoUser,
    User("p1", "Unverified", FALSE, FALSE, {"Student"}),
    User("p1", "Verified", FALSE, FALSE, {"Student"}),
    User("p1", "Banned", FALSE, FALSE, {"Student"}),
    User("p1", "Verified", FALSE, FALSE, {"Instructor"}),
    User("p1", "Verified", TRUE, FALSE, {"Instructor"}),
    User("p1", "Unverified", TRUE, FALSE, {"Instructor", "Student"}),
    User("p1", "Verified", FALSE, TRUE, {"Student"}) }

InitPassword ==
  \E seed \in UserSeeds :
    InitWith([u \in Users |-> IF u = "u1" THEN seed
                              ELSE User("p1", "Verified", FALSE, FALSE, {"Student"})], TRUE)

NextPassword ==
  \/ \E u \in Users, p \in Passwords : Login(u, p)
  \/ \E u \in Users, c \in Passwords, n \in Passwords : ChangePassword(u, c, n)
  \/ \E u \in Users, p \in Passwords : ResetPassword(u, p)
  \/ Tick

SpecPassword == InitPassword /\ [][NextPassword]_vars

\* logout and logout-everywhere of sequential callers, with the reaper
NextSession ==
  \/ \E u \in Users, p \in Passwords : Login(u, p)
  \/ \E t \in Presentable : Logout(t)
  \/ \E u \in Users : LogoutFromAllDevices(u)
  \/ Tick
  \/ CleanupExpiredTokens

SpecSession == InitWith(ActiveUsers, TRUE) /\ [][NextSession]_vars

\* permission resolution over the user, role and permission states
RoleSeeds(r) ==
  {NoRole} \cup
  {Role(name, active, perms) :
     name \in (IF r = "r1" THEN {"Admin", "Instructor"} ELSE {"Student"}),
     active \in BOOLEAN, perms \in SUBSET PermIds}

RoleTables == {t \in [RoleIds -> UNION {RoleSeeds(r) : r \in RoleIds}] :
                 \A r \in RoleIds : t[r] \in RoleSeeds(r)}

PermissionUsers(assigned) ==
  [u \in Users |-> IF u = "u1" THEN User("p1", "Verified", FALSE, FALSE, assigned) ELSE NoUser]

InitPermission ==
  \E assigned \in SUBSET RoleIds, table \in RoleTables, catalog \in SUBSET PermIds :
    /\ AuthInit(PermissionUsers(assigned), FALSE)
    /\ roleDocs = table
    /\ permissionDocs = {Permission(x) : x \in catalog}
    /\ permissionCache = [u \in Users |-> NoEntry]
    /\ permRet = NoPermRet
    /\ ReaperIdle /\ MailIdle /\ OtpHistoryIdle /\ VerifyIdle /\ LookupIdle /\ StampIdle

RequiredLists == SUBSET {Permission(x).name : x \in PermIds}

NextPermission ==
  \/ \E u \in Users : GetUserPermissions(u)
  \/ \E u \in Users, required \in RequiredLists : HasAllPermissions(u, required)
  \/ \E u \in Users, required \in RequiredLists : HasAnyPermission(u, required)
  \/ \E u \in Users : ClearUserCache(u)
  \/ \E r \in RoleIds, b \in BOOLEAN : UpdateRoleActive(r, b)

SpecPermission == InitPermission /\ [][NextPermission]_vars

\* the cache under a moving clock: one principal holding both roles, every read audited
CacheRoles ==
  [r \in RoleIds |-> IF r = "r1" THEN Role("Instructor", TRUE, {"x1"})
                                 ELSE Role("Student", TRUE, {"x2"})]

InitPermissionCache ==
  /\ AuthInit(PermissionUsers(RoleIds), TRUE)
  /\ roleDocs = CacheRoles
  /\ permissionDocs = {Permission(x) : x \in PermIds}
  /\ permissionCache = [u \in Users |-> NoEntry]
  /\ permRet = NoPermRet
  /\ ReaperIdle /\ MailIdle /\ OtpHistoryIdle /\ VerifyIdle /\ LookupIdle /\ StampIdle

NextPermissionCache ==
  \/ \E u \in Users : GetUserPermissions(u)
  \/ \E r \in RoleIds, b \in BOOLEAN : UpdateRoleActive(r, b)
  \/ \E u \in Users : ClearUserCache(u)
  \/ ClearCache
  \/ Tick

SpecPermissionCache == InitPermissionCache /\ [][NextPermissionCache]_vars

\* the cleanup scheduler next to logins and a moving clock
NextReaper ==
  \/ StartTokenCleanup
  \/ StopTokenCleanup
  \/ \E t \in timers : ScheduledSweep(t)
  \/ StoreOutage
  \/ \E u \in Users : Login(u, "p1")
  \/ Tick

SpecReaper == Init /\ [][NextReaper]_vars

\* setInterval keeps firing a scheduled timer
SpecReaperLive == SpecReaper /\ WF_vars(\E t \in timers : ScheduledSweep(t))

\* issuing and verifying one-time codes while the mail transport comes and goes
NextMail ==
  \/ \E u \in Users, r \in {"student", "instructor"}, c \in Codes : Register(u, r, "p1", c)
  \/ \E u \in Users, c \in Codes : ForgotPassword(u, c)
  \/ \E u \in Users, ty \in {EmailVerification, PasswordReset}, c \in Codes : ResendOTP(u, ty, c)
  \/ \E u \in Users, c \in Codes : VerifyPasswordResetOTP(u, c)
  \/ \E u \in Users, c \in Codes : VerifyOTP(u, c)
  \/ MailOutage
  \/ Tick

SpecMail == InitWith(OtpUsers, TRUE) /\ [][NextMail]_vars

\* administration of roles and permissions by overlapping requests
InitRoleAdmin ==
  /\ AuthInit(ActiveUsers, TRUE)
  /\ roleDocs = [r \in RoleIds |-> IF r = "r1" THEN Role("Instructor", TRUE, {}) ELSE NoRole]
  /\ permissionDocs = {}
  /\ permissionCache = [u \in Users |-> NoEntry]
  /\ permRet = NoPermRet
  /\ ReaperIdle /\ MailIdle /\ OtpHistoryIdle /\ VerifyIdle /\ LookupIdle /\ StampIdle

NextRoleAdmin ==
  \/ \E x \in PermIds : CreatePermission(x)
  \/ \E r \in RoleIds, ids \in SUBSET PermIds : CreateRole(r, "Student", ids)
  \/ \E k \in Tasks, r \in RoleIds, ids \in SUBSET PermIds : AddPermissionsCheck(k, r, ids)
  \/ \E k \in Tasks : AddPermissionsWrite(k)
  \/ \E k \in Tasks, x \in PermIds : DeletePermissionCheck(k, x)
  \/ \E k \in Tasks : DeletePermissionDelete(k)

SpecRoleAdmin == InitRoleAdmin /\ [][NextRoleAdmin]_vars

\* building token payloads while the clock runs
NextStamp ==
  \/ \E ty \in {AccessToken, RefreshToken, ForgotPasswordToken}, u \in Users : PayloadIat(ty, u)
  \/ PayloadExp
  \/ PayloadSign
  \/ ClockAdvance

SpecStamp == Init /\ [][NextStamp]_vars

\* permission lookups that overlap with a role change and its invalidation
NextPermissionRace ==
  \/ \E k \in Tasks : GetPermissionsStart(k, "u1")
  \/ \E k \in Tasks : GetPermissionsRead(k)
  \/ \E k \in Tasks : GetPermissionsSet(k)
  \/ \E r \in RoleIds, b \in BOOLEAN : UpdateRoleActive(r, b)
  \/ \E u \in Users : ClearUserCache(u)
  \/ Tick

SpecPermissionRace == InitPermissionCache /\ [][NextPermissionRace]_vars

\* verification calls that overlap
NextOtpRace ==
  \/ \E u \in Users, c \in Codes : Register(u, "student", "p1", c)
  \/ \E u \in Users, c \in Codes : ForgotPassword(u, c)
  \/ \E k \in Tasks, ty \in {EmailVerification, PasswordReset}, u \in Users, c \in Codes :
       VerifyFind(k, ty, u, c)
  \/ \E k \in Tasks : VerifyUpdate(k)
  \/ Tick

SpecOtpRace == InitWith(OtpUsers, TRUE) /\ [][NextOtpRace]_vars

\* rotation while the store comes and goes
NextRotation ==
  \/ \E u \in Users : Login(u, "p1")
  \/ \E k \in Tasks, t \in issued : ReissueValidate(k, t)
  \/ \E k \in Tasks : ReissueFindUser(k)
  \/ \E k \in Tasks : ReissueRevoke(k)
  \/ \E k \in Tasks : ReissueIssue(k)
  \/ StoreOutage

SpecRotation == InitWith(ActiveUsers, TRUE) /\ [][NextRotation]_vars

\* logout-all racing with rotations in flight
NextLogoutRace ==
  \/ \E u \in Users : Login(u, "p1")
  \/ \E k \in Tasks, t \in issued : ReissueValidate(k, t)
  \/ \E k \in Tasks : ReissueFindUser(k)
  \/ \E k \in Tasks : ReissueRevoke(k)
  \/ \E k \in Tasks : ReissueIssue(k)
  \/ \E u \in Users : LogoutFromAllDevices(u)

SpecLogoutRace == InitWith(ActiveUsers, TRUE) /\ [][NextLogoutRace]_vars

\* the two admin gates over every user, role table and assignment
InitAdminGate ==
  \E assigned \in SUBSET RoleIds, table \in RoleTables :
    /\ AuthInit(PermissionUsers(assigned), TRUE)
    /\ roleDocs = table
    /\ permissionDocs = {}
    /\ permissionCache = [u \in Users |-> NoEntry]
    /\ permRet = NoPermRet
    /\ ReaperIdle /\ MailIdle /\ OtpHistoryIdle /\ VerifyIdle /\ LookupIdle /\ StampIdle

NextAdminGate ==
  \/ \E u \in Users : AdminMiddleware(u)
  \/ \E u \in Users : HasRoles(u, {Admin})
  \/ \E r \in RoleIds, b \in BOOLEAN : UpdateRoleActive(r, b)

SpecAdminGate == InitAdminGate /\ [][NextAdminGate]_vars

\* refused calls next to the ones that succeed, one reissueToken at a time, with
\* users being removed
NextRefusal ==
  \/ \E u \in Users : Login(u, "p1")
  \/ \E t \in Presentable : ReissueValidate(1, t)
  \/ ReissueFindUser(1)
  \/ ReissueRevoke(1)
  \/ ReissueIssue(1)
  \/ \E t \in Presentable : Logout(t)
  \/ \E u \in Users : RemoveUser(u)
  \/ Tick

SpecRefusal == InitWith(ActiveUsers, TRUE) /\ [][NextRefusal]_vars

\* ================================================================ properties
\* validateToken in a process whose in-memory blacklist is empty
ColdValidate(store, t, token) == ValidateTokenWith({}, store, t, token, RefreshToken)

IsActive(store, token) == FindActiveRefresh(store, token) # {}

C2_RotationStep ==
  /\ \A r \in rotations' : ~(IsActive(tokens', r.old) /\ IsActive(tokens', r.new))
  /\ \A r \in rotations' \ rotations :
       /\ ~IsActive(tokens', r.old)
       /\ ~ColdValidate(tokens', now', r.old).valid
       /\ IsActive(tokens', r.new)
       /\ ColdValidate(tokens', now', r.new).valid

C3_RedeemedAtMostOnce ==
  \A r1, r2 \in rotations : r1.old = r2.old => r1 = r2

\* the reasons for which reissueToken rejects a refresh token
RejectedWhy(token) ==
  IF token.kind # "jwt" THEN "malformed"
  ELSE IF token.key # TOKEN_SECRET_MAP(RefreshToken) \/ token.type # RefreshToken THEN "other"
  ELSE IF token \in revoked THEN "revoked"
  ELSE IF now >= token.exp THEN "expired"
  ELSE IF FindAnyRefresh(tokens, token) = {} THEN "not found"
  ELSE "none"

Rejected(why) == {t \in Presentable : RejectedWhy(t) = why /\ ~validateToken(t, RefreshToken).valid}

\* C8: reissueToken answers every rejected refresh token, be it expired,
\* revoked, missing from the store or malformed, with the same status and
\* the same message.
C8_UniformRefusal ==
  \A t1, t2 \in UNION {Rejected(w) : w \in {"expired", "revoked", "not found", "malformed"}} :
    ReissueRefusal(validateToken(t1, RefreshToken)) = ReissueRefusal(validateToken(t2, RefreshToken))

\* a correctly signed token of its own kind, presented at or after its expiry
ExpiredSigned == {t \in IssuedTokens : now >= t.exp /\ t \notin tokenBlacklist}

\* C9: validateToken classifies every signed token presented after its expiry
\* as expired (result.expired), so the validate-token endpoint answers 401 for
\* it and 400 for any other invalid token, and authMiddleware takes its
\* token-expired branch.
C9_ExpiredClassified ==
  /\ \A t \in ExpiredSigned :
       /\ validateToken(t, t.type).expired
       /\ ValidateTokenResponse(validateToken(t, t.type)).status = "UN_AUTHORIZED"
       /\ t.type = AccessToken => AuthMiddlewareError(validateToken(t, t.type)).branch = "expired"
  /\ \A t \in Presentable \ ExpiredSigned, ty \in {AccessToken, RefreshToken} :
       (~validateToken(t, ty).valid /\ JwtVerify(t, TOKEN_SECRET_MAP(ty), now).name # "TokenExpiredError")
         => ValidateTokenResponse(validateToken(t, ty)).status = "BAD_REQUEST"

\* C4: a one-time code is consumed at most once, for email verification and
\* for password reset alike: every successful verification spends a code that
\* was unused until then, so a second call with the same code fails.
C4_ConsumeStep ==
  \A u \in Users, c \in Codes :
    ((VerifyOTP(u, c) \/ VerifyPasswordResetOTP(u, c)) /\ ret'.ok)
      => \E o \in otps : /\ o.user_id = u
                         /\ verifyOTP(c, o.code)
                         /\ o.is_used = FALSE
                         /\ [o EXCEPT !.is_used = TRUE] \in otps'

\* C4: every successful verification spends a code that was unused.
C4_ConsumedAtMostOnce == [][C4_ConsumeStep]_vars

\* a password-reset code of userId that has been verified and not yet spent
VerifiedResetCodes(userId) ==
  {o \in otps : o.user_id = userId /\ o.type = PasswordReset /\ o.is_used = TRUE}

\* C5: resetPassword changes a password only if a password-reset code of that
\* principal has been verified beforehand; with no verified code the call is
\* rejected and the password stays.
C5_ResetStep ==
  \A u \in Users, p \in Passwords :
    (ResetPassword(u, p) /\ VerifiedResetCodes(u) = {})
      => (~ret'.ok /\ users'[u].password = users[u].password)

\* C5: no step of resetPassword changes a password without a verified reset code.
C5_ResetIsOtpGated == [][C5_ResetStep]_vars

\* C7: once resetPassword has succeeded for a principal, no password-reset
\* code issued to it before the reset validates any more, verified or not.
C7_ResetStep ==
  \A u \in Users, p \in Passwords :
    (ResetPassword(u, p) /\ ret'.ok)
      => \A c \in Codes : (VerifyResetError(u, c) # "")'

\* C7: after every successful resetPassword no earlier reset code validates.
C7_ResetVoidsCodes == [][C7_ResetStep]_vars

\* C6: a successful resetPassword or changePassword for a principal revokes
\* every refresh token issued to it before the call, so that none validates
\* afterwards, and leaves the rows of every other principal as they were.
C6_PasswordStep ==
  /\ \A t \in revoked' : ~ColdValidate(tokens', now', t).valid
  /\ \A u \in Users :
       ((\/ \E p \in Passwords : ResetPassword(u, p)
         \/ \E c \in Passwords, n \in Passwords : ChangePassword(u, c, n)) /\ ret'.ok)
         => /\ \A r \in issued : r.sub = u =>
                 /\ ~IsActive(tokens', r)
                 /\ ~ColdValidate(tokens', now', r).valid
                 /\ r \in revoked' \/ FindAnyRefresh(tokens, r) = {}
            /\ {r \in tokens : r.user_id # u} = {r \in tokens' : r.user_id # u}

\* C6: every successful password change or reset revokes all of the principal's refresh tokens and no others.
C6_PasswordRevokesSessions == [][C6_PasswordStep]_vars

C6_Witness ==
  /\ ret.op \in {"resetPassword", "changePassword"}
  /\ ret.ok
  /\ \E r \in issued : r.sub = ret.user /\ now < r.exp /\ r \in revoked
  /\ \E r \in issued : r.sub # ret.user /\ validateToken(r, RefreshToken).valid

\* the gate of login: an unverified non-instructor or an unapproved instructor
Gated(user) ==
  \/ ~isInstructor(user) /\ user.verify # "Verified"
  \/ isInstructor(user) /\ ~user.is_approved

\* C10: a login with the right password fails and creates no refresh-token
\* row when the principal is gated; otherwise, for an existing principal that
\* is not removed, it succeeds and persists exactly one new refresh token.
C10_LoginStep ==
  \A u \in Users, p \in Passwords :
    (Login(u, p) /\ users[u].exists /\ ~users[u].is_removed
       /\ comparePassword(p, users[u].password))
      => IF Gated(users[u])
         THEN ~ret'.ok /\ tokens' = tokens /\ issued' = issued
         ELSE /\ ret'.ok
              /\ Cardinality(tokens' \ tokens) = 1 /\ tokens \subseteq tokens'
              /\ issued' \ issued = {ret'.token}
              /\ \A r \in tokens' \ tokens :
                   r = TokenRow(ret'.token) /\ r.user_id = u /\ r.is_removed = FALSE
              /\ ValidateTokenWith(tokenBlacklist', tokens', now', ret'.token, RefreshToken).valid
              /\ ValidateTokenWith(tokenBlacklist', tokens', now', AccessOf(ret'.token), AccessToken).valid

\* C10: every login with the right password obeys the gate.
C10_LoginGating == [][C10_LoginStep]_vars

C10_Witness ==
  /\ ret.op = "login" /\ ~ret.ok /\ tokens # {}
  /\ ret.message \in
       {"Your account is not verified. Please check your email for verification instructions.",
        "Your instructor account is pending approval by an administrator."}

\* the row that persists refresh token t
IsRowOf(r, t) == r.token_id = t.tokenId /\ r.user_id = t.sub /\ r.type = RefreshToken

C11_LogoutStep ==
  \A t \in Presentable :
    (Logout(t) /\ validateToken(t, RefreshToken).valid)
      => /\ \A r \in tokens : IsRowOf(r, t) => [r EXCEPT !.is_removed = TRUE] \in tokens'
         /\ ~IsActive(tokens', t)
         /\ {r \in tokens : ~IsRowOf(r, t)} = {r \in tokens' : ~IsRowOf(r, t)}
         /\ Cardinality(tokens') = Cardinality(tokens)

C12_LogoutAllStep ==
  \A u \in Users :
    LogoutFromAllDevices(u)
      => /\ \A r \in issued : r.sub = u =>
              /\ ~IsActive(tokens', r)
              /\ ~ValidateTokenWith(tokenBlacklist', tokens', now', r, RefreshToken).valid
              /\ ~ColdValidate(tokens', now', r).valid
         /\ {r \in tokens : r.user_id # u} = {r \in tokens' : r.user_id # u}

\* C12: when logoutFromAllDevices(P) returns, every refresh token issued to P
\* before the call is revoked and fails validateToken, and the refresh-token
\* rows of every other principal are as they were.
C12_LogoutAllRevokesPrincipal == [][C12_LogoutAllStep]_vars

C12_Witness ==
  /\ ret.op = "logoutFromAllDevices" /\ ret.ok
  /\ Cardinality({r \in tokens : r.user_id = ret.user /\ r.is_removed = TRUE /\ now < r.expires_at}) >= 2
  /\ \E r \in issued : r.sub # ret.user /\ validateToken(r, RefreshToken).valid

\* the permission set the role assignments of userId stand for
ReferencePermissions(userId) ==
  LET active == {r \in RoleIds : /\ users[userId].exists /\ r \in users[userId].roles
                                 /\ roleDocs[r].exists /\ roleDocs[r].is_active} IN
  IF \E r \in active : roleDocs[r].name = "Admin" THEN permissionDocs
  ELSE {p \in permissionDocs : \E r \in active : p.id \in roleDocs[r].permissions}

\* C13: with no cache entry for the principal, getUserPermissions returns
\* the whole catalog if one of its active roles is Admin, otherwise exactly
\* the existing permissions its active roles refer to, and nothing for an
\* unknown principal or one without active roles; inactive roles, an inactive
\* Admin included, contribute nothing.
C13_ResolvesReference ==
  \A u \in Users :
    ~permissionCache[u].cached =>
      /\ getUserPermissions(u) = ReferencePermissions(u)
      /\ CacheAfterGet(u)[u].permissions = ReferencePermissions(u)

\* resolved for a principal with an inactive Admin role and an active role
\* that names both an existing and a missing permission
C13_Witness ==
  /\ permissionCache["u1"].cached
  /\ permissionCache["u1"].permissions = ReferencePermissions("u1")
  /\ permissionCache["u1"].permissions = {Permission("x1")}
  /\ roleDocs["r1"] = Role("Admin", FALSE, PermIds)
  /\ roleDocs["r2"] = Role("Student", TRUE, PermIds)
  /\ users["u1"].roles = RoleIds
  /\ ~permissionCache["u2"].cached /\ getUserPermissions("u2") = {}

NoActiveRole(userId) == ~users[userId].exists \/ ActiveRolesOf(users[userId]) = {}

\* C14 as stated: true for an empty list for every principal, false for every
\* nonempty list whenever the principal has no active role.
C14_AsStated ==
  \A u \in Users, required \in RequiredLists :
    /\ required = {} => hasAllPermissions(u, required) /\ hasAnyPermission(u, required)
    /\ (required # {} /\ NoActiveRole(u))
         => ~hasAllPermissions(u, required) /\ ~hasAnyPermission(u, required)

\* C14: hasAllPermissions and hasAnyPermission return true for an empty list
\* for every principal, and false for every nonempty list when the principal
\* has no active role and no cache entry younger than the TTL answers for it.
C14_EmptyAndNoRoles ==
  \A u \in Users, required \in RequiredLists :
    /\ required = {} => hasAllPermissions(u, required) /\ hasAnyPermission(u, required)
    /\ (required # {} /\ NoActiveRole(u) /\ ~CacheHit(u))
         => ~hasAllPermissions(u, required) /\ ~hasAnyPermission(u, required)

\* a principal whose roles exist but are all inactive, asked without a cache entry
C14_Witness ==
  /\ users["u1"].roles = RoleIds
  /\ \A r \in RoleIds : roleDocs[r].exists /\ ~roleDocs[r].is_active /\ roleDocs[r].permissions = PermIds
  /\ permissionDocs # {}
  /\ ~CacheHit("u1") /\ permissionCache["u2"].cached
  /\ \A required \in RequiredLists \ {{}} : ~hasAnyPermission("u1", required)


\* ---------------------------------------------------------------------------
\* permission cache: time to live

Fresh(entry, time) == entry.cached /\ time - entry.timestamp < CACHE_TTL

C15_ReadStep(u) ==
  GetUserPermissions(u) =>
    IF Fresh(permissionCache[u], now)
    THEN /\ permRet'.read = FALSE
         /\ permRet'.permissions = permissionCache[u].permissions
         /\ permissionCache' = permissionCache
    ELSE /\ permRet'.read = TRUE
         /\ permRet'.permissions = ReferencePermissions(u)
         /\ permissionCache' = [permissionCache EXCEPT ![u] =
                                  [cached |-> TRUE, permissions |-> ReferencePermissions(u),
                                   timestamp |-> now]]

\* C15: getUserPermissions answers from the cache, without reading the store, only while the
\* entry is younger than CACHE_TTL; a read at or after CACHE_TTL (or with no entry) reads the
\* store, returns what the store says now and replaces the entry with one stamped now, so no
\* answer is older than one CACHE_TTL
C15_CacheStalenessBound == [][\A u \in Users : C15_ReadStep(u)]_vars

\* a read served from the cache in the last tick of its life, after the roles changed under it
C15_Witness ==
  /\ permRet.op = "getUserPermissions"
  /\ permRet.user = "u1"
  /\ permRet.read = FALSE
  /\ permRet.permissions # ReferencePermissions("u1")
  /\ now - permissionCache["u1"].timestamp = CACHE_TTL - 1


\* ---------------------------------------------------------------------------
\* cleanup scheduler: start and stop

C16_StartStopStep ==
  /\ Cardinality(timers') <= 1
  /\ timers' = (IF tokenCleanupInterval' = NoTimer THEN {} ELSE {tokenCleanupInterval'})
  /\ StartTokenCleanup => timers' = {nextTimerId} /\ nextTimerId \notin timers
  /\ StopTokenCleanup =>
       /\ timers' = {}
       /\ tokenCleanupInterval = NoTimer =>
            UNCHANGED <<tokenCleanupInterval, timers, nextTimerId, tokens, storeUp>>
  /\ timers = {} => tokens \subseteq tokens'

\* C16: whatever the order of startTokenCleanup and stopTokenCleanup calls, at most one timer
\* is scheduled and it is the one the handle names; a start replaces the timer of an earlier
\* start, a stop without a timer changes nothing, and while no timer is scheduled no sweep
\* removes a row
C16_StartStopIdempotent == [][C16_StartStopStep]_vars

\* a second start has just replaced the timer of the first
C16_Witness ==
  /\ reaperLog.op = "startTokenCleanup"
  /\ reaperLog.outcome = "replaced"
  /\ timers = {tokenCleanupInterval}


\* ---------------------------------------------------------------------------
\* cleanup scheduler: a failing sweep

ExpiredRows == {r \in tokens : r.expires_at < now}

C17_FailedSweepStep(t) ==
  ScheduledSweep(t) /\ ~storeUp =>
    /\ reaperLog'.outcome = "failed"
    /\ UNCHANGED <<timers, tokenCleanupInterval, tokens>>
    /\ t \in timers'

\* C17: a sweep that runs while the store does not answer is logged, removes nothing and
\* leaves its timer scheduled and able to fire again; and when from some point on the store
\* answers and the scheduler stays started, there is a point after which no expired row is
\* left in the tokens collection
C17_FailedSweepRetried ==
  /\ [][\A t \in timers : C17_FailedSweepStep(t)]_vars
  /\ (<>[](storeUp /\ tokenCleanupInterval # NoTimer)) => <>[](ExpiredRows = {})

\* a sweep failed earlier, and a later firing of the still scheduled timer purged rows
C17_Witness ==
  /\ reaperLog.failed
  /\ reaperLog.op = "scheduledSweep"
  /\ reaperLog.outcome = "completed"
  /\ reaperLog.purged >= 1
  /\ tokenCleanupInterval # NoTimer
  /\ ExpiredRows = {}


\* ---------------------------------------------------------------------------
\* one-time codes: a failing mail transport

\* the step stored a code for u
IssuedCode(u) == \E o \in otps' \ otps : o.user_id = u

\* the code c just stored for u is live: unused and not yet expired
StoredValid(u, c) ==
  \E o \in otps' \ otps : /\ o.user_id = u /\ o.code = encryptOTP(c)
                          /\ o.is_used = FALSE /\ o.expired_at > now'

C18_IssueStep(u, c) ==
  /\ \/ \E r \in {"student", "instructor"} : Register(u, r, "p1", c)
     \/ ForgotPassword(u, c)
     \/ \E ty \in {EmailVerification, PasswordReset} : ResendOTP(u, ty, c)
  /\ IssuedCode(u)
  /\ ~mailUp
  => ret'.ok /\ StoredValid(u, c)

\* C18: when the mail transport fails, an operation that issues a code (register,
\* forgotPassword, resendOTP) still completes without error and the code it stored is valid
C18_MailFailureNotFatal == [][\A u \in Users, c \in Codes : C18_IssueStep(u, c)]_vars


\* ---------------------------------------------------------------------------
\* one-time codes: a new code supersedes the earlier ones

C19_VerifyStep(u, c) ==
  /\ VerifyPasswordResetOTP(u, c) /\ VerifyResetError(u, c) = ""
       => encryptOTP(c) = newestOtp[u][PasswordReset].code
  /\ VerifyOTP(u, c) /\ VerifyEmailError(u, c) = ""
       => encryptOTP(c) = newestOtp[u][EmailVerification].code

\* C19: once a newer code was issued for a user and a type, no earlier code of that user and
\* type passes verifyOTP or verifyPasswordResetOTP: a verification that succeeds was given
\* the code issued last
C19_NewCodeSupersedes == [][\A u \in Users, c \in Codes : C19_VerifyStep(u, c)]_vars


\* ---------------------------------------------------------------------------
\* one-time codes: a wrong code

\* the live record a password-reset (an email) verification of u is compared with
ResetRecord(u) == MostRecent(FindResetOtp(u))

EmailRecord(u) == MostRecent(FindEmailOtp(u))

C20_WrongCodeStep(u, c) ==
  /\ ( /\ VerifyPasswordResetOTP(u, c)
       /\ users[u].exists /\ FindResetOtp(u) # {}
       /\ encryptOTP(c) # ResetRecord(u).code )
     => /\ ret'.ok = FALSE
        /\ UNCHANGED <<otps, users>>
        /\ \A d \in Codes : encryptOTP(d) = ResetRecord(u).code
                              => (VerifyResetError(u, d) = "")'
  /\ ( /\ VerifyOTP(u, c)
       /\ users[u].exists /\ users[u].verify # "Verified" /\ FindEmailOtp(u) # {}
       /\ encryptOTP(c) # EmailRecord(u).code )
     => /\ ret'.ok = FALSE
        /\ UNCHANGED <<otps, users>>
        /\ \A d \in Codes : encryptOTP(d) = EmailRecord(u).code
                              => (VerifyEmailError(u, d) = "")'

\* C20: a verification with a code that differs from the live record's is rejected and leaves
\* the otps and users collections as they were (is_used, verify and password included), so
\* the right code, tried next, is still accepted
C20_WrongCodeChangesNothing == [][\A u \in Users, c \in Codes : C20_WrongCodeStep(u, c)]_vars

\* a wrong code was just rejected while an unused live record waits for the right one
C20_Witness ==
  /\ ret.op \in {"verifyOTP", "verifyPasswordResetOTP"}
  /\ ret.ok = FALSE
  /\ ret.status = "BAD_REQUEST"
  /\ \/ /\ ret.op = "verifyPasswordResetOTP"
        /\ FindResetOtp(ret.user) # {}
        /\ ResetRecord(ret.user).is_used = FALSE
     \/ /\ ret.op = "verifyOTP"
        /\ users[ret.user].verify # "Verified"
        /\ FindEmailOtp(ret.user) # {}


\* ---------------------------------------------------------------------------
\* forgotPassword: what the answer tells about the email

C21_ForgotStep(u, c) ==
  ForgotPassword(u, c) =>
    \A v \in Users : /\ ret'.status = ForgotPasswordOutcome(v).status
                     /\ ret'.message = ForgotPasswordOutcome(v).message

\* C21: the status and message forgotPassword answers for one email are those it would answer,
\* in the same state, for any other well-formed email, registered or not
C21_ForgotDoesNotReveal == [][\A u \in Users, c \in Codes : C21_ForgotStep(u, c)]_vars


\* ---------------------------------------------------------------------------
\* rotation under a failing store

\* the row of refresh token t is marked removed in the store
DurablyRevoked(store, t) == \E r \in store : IsRowOf(r, t) /\ r.is_removed = TRUE

C22_RotationEnd(k) ==
  ReissueIssue(k) =>
    ((tokens' # tokens) <=> DurablyRevoked(tokens', tasks[k].token))

\* C22: when a reissueToken call that passed validation ends, it has persisted a new refresh
\* token exactly if the row of the old one is marked removed in the store
C22_RotationAllOrNothing == [][\A k \in Tasks : C22_RotationEnd(k)]_vars


\* ---------------------------------------------------------------------------
\* one-time codes: verifications that overlap

\* C23: of the verifyOTP calls that present the code of one email-verification record, at
\* most one succeeds, however the calls overlap
C23_ConsumedAtomically ==
  \A o \in otps : o.type = EmailVerification => otpSuccesses[o.id] <= 1


\* ---------------------------------------------------------------------------
\* permission cache: invalidation against a lookup in flight

\* C24: a getUserPermissions call that starts after clearUserCache ran for its user, with no
\* role change since the invalidation, returns what the store says
C24_InvalidationTakesEffect ==
  (permRet.op = "getUserPermissions" /\ permRet.clean /\ invalidated[permRet.user])
    => permRet.permissions = ReferencePermissions(permRet.user)


\* ---------------------------------------------------------------------------
\* token timestamps

\* C25: a payload handed to jwt.sign has exp = iat + the configured lifetime of its type
C25_ExpIsIatPlusTtl ==
  building.pc = "signed" => building.exp = building.iat + ExpiresIn(building.type)


\* ---------------------------------------------------------------------------
\* roles refer to existing permissions

\* C26: every permission id stored in a role names a row of the permissions collection
C26_RolesReferToPermissions ==
  \A r \in RoleIds : roleDocs[r].exists => roleDocs[r].permissions \subseteq ExistingPermissionIds


\* ---------------------------------------------------------------------------
\* gating on every path that issues credentials

\* C27: whatever operation issues a refresh token (and the access token that comes with it),
\* the principal it is issued to is one that login does not turn away at that moment as an
\* unverified non-instructor or an unapproved instructor
C27_IssueIsGated == [][\A t \in issued' \ issued : ~Gated(users'[t.sub])]_vars


\* the rows of userId that validateToken's findOne {is_removed: {$ne: true}} still matches
ActiveRowsOf(store, userId) == {r \in RowsOf(store, userId) : r.is_removed # TRUE}

\* C28: logout-everywhere is not outlived by a refresh in flight: when
\* logoutFromAllDevices(P) has just returned and the next call to finish is not a
\* login, then once no reissueToken is in flight P has no active refresh row.
C28_LogoutEverywhereHolds ==
  [][(/\ ret.op = "logoutFromAllDevices" /\ ret.ok
      /\ ret'.op # "login"
      /\ \A k \in Tasks : tasks'[k].pc = "idle")
     => ActiveRowsOf(tokens', ret.user) = {}]_vars

\* C29: the two admin gates agree: whenever adminMiddleware has answered for a
\* user, it admitted the user exactly when hasRoles(user, [Admin]) is true in the
\* same user and role state, an inactive Admin role included.
C29_AdminGatesAgree ==
  ret.op = "adminMiddleware" => (ret.ok <=> hasRoles(ret.user, {Admin}))

\* C30: a reissueToken or logout call refused because the presented token is not
\* valid, or a reissueToken refused because its user is missing or removed,
\* leaves the token store and the in-memory blacklist exactly as they were: the
\* step that answers with the refusal changes neither (the store answers every
\* call here, so these are the only refusals).
C30_RefusalChangesNothing ==
  [][(ret'.op \in {"reissueToken", "logout"} /\ ~ret'.ok)
       => UNCHANGED <<tokens, tokenBlacklist>>]_vars

\* a reissueToken was refused for a removed user while rows and blacklisted tokens exist
C30_Witness ==
  /\ ret.op = "reissueToken" /\ ~ret.ok /\ ret.status = "NOT_FOUND"
  /\ users[ret.user].is_removed
  /\ tokens # {}
  /\ tokenBlacklist # {}
====
